---------------------------- MODULE Spec2Model ----------------------------
(***************************************************************************)
(* Model of the TMS-AI retrieval-and-answer core:                          *)
(*   - utils/retry_utils.py   : retry_on_api_error (tenacity retry around  *)
(*                              a converting wrapper), is_retriable_error  *)
(*   - modules/rag_engine.py  : RAGEngine.ask_question / generate_answer / *)
(*                              calculate_confidence_score /               *)
(*                              apply_guardrails                           *)
(*   - utils/helpers.py       : format_confidence_score                    *)
(*   - modules/extractor.py   : StructuredExtractor.extract_shipment_data  *)
(*   - models/schemas.py      : ShipmentData                               *)
(*   - modules/vector_store.py: VectorStoreManager (create, load, delete)  *)
(*   - app.py                 : the /upload, /ask, /extract and DELETE     *)
(*                              handlers and document_registry             *)
(*                                                                         *)
(* Numbers.  Python floats are modelled by exact rationals [n, d] kept in  *)
(* lowest terms; a retrieval distance is given in thousandths, a rounded    *)
(* value (round(x, 3)) in thousandths.  Where round() meets an exact tie   *)
(* the float result depends on the binary representation, so both          *)
(* neighbours are possible outcomes.  A comparison against a threshold is  *)
(* the comparison of the exact values: on an input whose exact value sits  *)
(* on a threshold the float computation may fall on either side of it.     *)
(*                                                                         *)
(* Exceptions.  An exception is [type, msg]; msg is the set of marker      *)
(* substrings that str(e).lower() contains, which is all the code reads    *)
(* of the text.                                                            *)
(***************************************************************************)
EXTENDS Integers, Sequences, FiniteSets, TLC

VARIABLES
    w,              \* frame of the retry_on_api_error call in progress
    history,        \* outcomes of the wrapped operation, one per invocation
    pc,             \* position of the ask_question call
    question,       \* its question argument
    retrieved_docs, \* what similarity_search returned: <<[doc, score]>>
    storeQueries,   \* executions of vector_store.similarity_search_with_score
    llmCalls,       \* executions of self.llm.invoke in this call
    llmAnswer,      \* response.content of the last successful llm.invoke
    scoring,        \* what calculate_confidence_score returned
    result,         \* the dictionary ask_question returned
    extract_pc,     \* position of the extract_shipment_data call
    response,       \* what llm.invoke returned to it: <<[text, doc]>>
    caught,         \* what its outer except clause caught: <<[at, exc]>>
    shipment_data,  \* the ShipmentData it returned
    ctxQueries,     \* executions of vector_store.similarity_search in it
    invokes,        \* executions of self.llm.invoke in it
    collections,    \* names of the collections in the persisted index
    storeCall,      \* the last VectorStoreManager call and what it gave
    document_registry, \* app.document_registry: the registered ids
    files,          \* ids whose uploaded file is in UPLOAD_DIR
    issued,         \* ids generate_document_id has produced
    request,        \* the last request a handler served
    http,           \* its response (<<>> while it is being served)
    uploading,      \* the id of the upload in create_vector_store: <<d>>
    creations,      \* executions of Chroma.from_documents for uploads,
                    \* per collection name
    indexed         \* ids for which create_vector_store has returned

askVars == <<pc, question, retrieved_docs, storeQueries, llmCalls,
             llmAnswer, scoring, result>>

extractVars == <<extract_pc, response, caught, shipment_data, ctxQueries,
                 invokes>>

storeVars == <<collections, storeCall>>

appVars == <<document_registry, files, issued, request, http, uploading,
             creations, indexed>>

vars == <<w, history, askVars, extractVars, storeVars, appVars>>

--------------------------------------------------------------------------
(* Exact rationals *)

Abs(x) == IF x < 0 THEN -x ELSE x

RECURSIVE GCD(_, _)
GCD(a, b) == IF b = 0 THEN a ELSE GCD(b, a % b)

Rat(n, d) ==
    LET g == GCD(Abs(n), d)
    IN  [n |-> n \div g, d |-> d \div g]

RAdd(a, b) == Rat(a.n * b.d + b.n * a.d, a.d * b.d)
RSub(a, b) == Rat(a.n * b.d - b.n * a.d, a.d * b.d)
RMul(a, b) == Rat(a.n * b.n, a.d * b.d)
RLt(a, b)  == a.n * b.d < b.n * a.d
RGe(a, b)  == ~RLt(a, b)

\* round(x, 3), in thousandths; an exact tie may land on either neighbour.
Round3(x) ==
    LET t == x.n * 1000
        lo == t \div x.d
        r2 == 2 * (t - lo * x.d)
    IN  IF r2 < x.d THEN {lo}
        ELSE IF r2 > x.d THEN {lo + 1}
        ELSE {lo, lo + 1}

RECURSIVE SumSeq(_)
SumSeq(s) == IF s = <<>> THEN 0 ELSE Head(s) + SumSeq(Tail(s))

--------------------------------------------------------------------------
(* utils/retry_utils.py *)

NoExc == [type |-> "None", msg |-> {}]

\* Python's class hierarchy for the exception types the model draws from.
Parent(t) ==
    CASE t = "ConnectionResetError"    -> "ConnectionError"
      [] t = "ConnectionError"         -> "OSError"
      [] t = "TimeoutError"            -> "OSError"
      [] t = "OSError"                 -> "Exception"
      [] t = "ValueError"              -> "Exception"
      [] t = "ValidationError"         -> "ValueError"
      [] t = "TypeError"               -> "Exception"
      [] t = "RateLimitError"          -> "Exception"
      [] t = "TokenLimitError"         -> "Exception"
      [] t = "ServiceUnavailableError" -> "Exception"
      [] OTHER                         -> "BaseException"

RECURSIVE IsSubclass(_, _)
IsSubclass(t, u) ==
    IF t = u THEN TRUE
    ELSE IF t = "BaseException" THEN FALSE
    ELSE IsSubclass(Parent(t), u)

\* `marker in error_msg`
Contains(e, marker) == marker \in e.msg

is_retriable_error(e) ==
    IF Contains(e, "rate limit") \/ Contains(e, "429") THEN TRUE
    ELSE IF Contains(e, "token limit") \/ Contains(e, "tokens") THEN TRUE
    ELSE IF Contains(e, "503") \/ Contains(e, "service unavailable") THEN TRUE
    ELSE IF Contains(e, "timeout") THEN TRUE
    ELSE FALSE

\* Variant: the token branch is tested before the rate-limit branch.
WrapperExceptTokenFirst(e) ==
    IF is_retriable_error(e)
    THEN IF Contains(e, "token limit") \/ Contains(e, "tokens")
         THEN [type |-> "TokenLimitError", msg |-> e.msg]
         ELSE IF Contains(e, "rate limit") \/ Contains(e, "429")
         THEN [type |-> "RateLimitError", msg |-> e.msg]
         ELSE IF Contains(e, "503") \/ Contains(e, "service unavailable")
         THEN [type |-> "ServiceUnavailableError", msg |-> e.msg]
         ELSE e
    ELSE e

\* The except block of wrapper(): the exception that leaves it when func
\* raised e.  `raise X(str(e)) from e` keeps the text; the bare `raise`
\* re-raises e itself.
WrapperExcept(e) ==
    IF is_retriable_error(e)
    THEN IF Contains(e, "rate limit") \/ Contains(e, "429")
         THEN [type |-> "RateLimitError", msg |-> e.msg]
         ELSE IF Contains(e, "token limit") \/ Contains(e, "tokens")
         THEN [type |-> "TokenLimitError", msg |-> e.msg]
         ELSE IF Contains(e, "503") \/ Contains(e, "service unavailable")
         THEN [type |-> "ServiceUnavailableError", msg |-> e.msg]
         ELSE e
    ELSE e

RetryTypes ==
    {"RateLimitError", "TokenLimitError", "ServiceUnavailableError",
     "ConnectionError", "TimeoutError"}

\* Variant: retry=retry_if_exception_type(Exception)
retry_if_any_exception(e) == IsSubclass(e.type, "Exception")

\* retry=retry_if_exception_type((...)): isinstance against the tuple
retry_if_exception_type(e) == \E t \in RetryTypes : IsSubclass(e.type, t)

Min(a, b) == IF a < b THEN a ELSE b
Max(a, b) == IF a > b THEN a ELSE b

MaxAttempts == 3

\* Variant: the stop condition is off by one (three retries, four attempts).
stop_after_retries(attempt_number) == attempt_number > MaxAttempts

\* stop=stop_after_attempt(3)
stop_after_attempt(attempt_number) == attempt_number >= MaxAttempts

\* Variant: the exponent is the attempt number itself (2 s, 4 s, 8 s, ...).
wait_exponential_from_two(attempt_number) ==
    Max(Max(0, 1), Min(1 * 2 ^ attempt_number, 10))

\* wait=wait_exponential(multiplier=1, min=1, max=10), in seconds:
\* max(max(0, min), min(multiplier * 2 ** (attempt_number - 1), max))
wait_exponential(attempt_number) ==
    Max(Max(0, 1), Min(1 * 2 ^ (attempt_number - 1), 10))

NoVal == "None"

\* The frame when no wrapped call is in progress.
IdleFrame ==
    [func |-> "none", state |-> "idle", attempt_number |-> 0, calls |-> 0,
     sleeps |-> <<>>, exc |-> NoExc, val |-> NoVal]

\* wrapper(*args, **kwargs) is entered: tenacity starts at attempt 1.
BeginCall(f) ==
    [func |-> f, state |-> "calling", attempt_number |-> 1, calls |-> 0,
     sleeps |-> <<>>, exc |-> NoExc, val |-> NoVal]

\* func returned v on this attempt: the wrapper returns it and nothing is
\* raised.
AfterSuccess(fr, v) ==
    [fr EXCEPT !.state = "returned", !.calls = @ + 1, !.val = v,
               !.exc = NoExc]

\* func raised e on this attempt: the except block converts it, tenacity
\* asks the retry predicate, then the stop condition; reraise=True hands
\* the last attempt's exception to the caller.
AfterFailure(fr, e) ==
    LET x == WrapperExcept(e)
    IN  IF ~retry_if_exception_type(x)
        THEN [fr EXCEPT !.state = "raised", !.calls = @ + 1, !.exc = x]
        ELSE IF stop_after_attempt(fr.attempt_number)
        THEN [fr EXCEPT !.state = "raised", !.calls = @ + 1, !.exc = x]
        ELSE [fr EXCEPT !.state = "backoff", !.calls = @ + 1, !.exc = x]

\* The sleep between two attempts.
AfterSleep(fr) ==
    [fr EXCEPT !.state = "calling",
               !.sleeps = Append(@, wait_exponential(fr.attempt_number)),
               !.attempt_number = @ + 1]

\* Exceptions the wrapped operations are let to raise.
ExcTypes ==
    {"Exception", "ConnectionError", "ConnectionResetError", "TimeoutError"}

Messages ==
    {{}, {"rate limit"}, {"429"}, {"token limit"}, {"tokens"}, {"503"},
     {"service unavailable"}, {"timeout"}, {"connection"},
     {"tokens", "429"}, {"timeout", "503"}}

Errors == [type : ExcTypes, msg : Messages]

Values == {"v1", "v2"}

Fail(e) == [ok |-> FALSE, exc |-> e, val |-> NoVal]
Ok(v)   == [ok |-> TRUE, exc |-> NoExc, val |-> v]

--------------------------------------------------------------------------
(* A wrapped operation called on its own: the environment decides, at each *)
(* invocation, whether the operation raises or returns.                    *)

CallOp ==
    /\ pc = "idle"
    /\ w.state \in {"idle", "returned", "raised"}
    /\ w' = BeginCall("op")
    /\ history' = <<>>
    /\ UNCHANGED <<askVars, extractVars, storeVars, appVars>>

OpRaises ==
    /\ w.func = "op"
    /\ w.state = "calling"
    /\ \E e \in Errors :
         /\ w' = AfterFailure(w, e)
         /\ history' = Append(history, Fail(e))
    /\ UNCHANGED <<askVars, extractVars, storeVars, appVars>>

OpReturns ==
    /\ w.func = "op"
    /\ w.state = "calling"
    /\ \E v \in Values :
         /\ w' = AfterSuccess(w, v)
         /\ history' = Append(history, Ok(v))
    /\ UNCHANGED <<askVars, extractVars, storeVars, appVars>>

\* tenacity sleeps, then makes the next attempt.
Backoff ==
    /\ w.state = "backoff"
    /\ w' = AfterSleep(w)
    /\ UNCHANGED <<history, askVars, extractVars, storeVars, appVars>>

InitIdle ==
    /\ w = IdleFrame
    /\ history = <<>>
    /\ pc = "idle"
    /\ question = ""
    /\ retrieved_docs = <<>>
    /\ storeQueries = 0
    /\ llmCalls = 0
    /\ llmAnswer = ""
    /\ scoring = <<>>
    /\ result = <<>>
    /\ extract_pc = "idle"
    /\ response = <<>>
    /\ caught = <<>>
    /\ shipment_data = <<>>
    /\ ctxQueries = 0
    /\ invokes = 0
    /\ collections = {}
    /\ storeCall = <<>>
    /\ document_registry = {}
    /\ files = {}
    /\ issued = {}
    /\ request = <<>>
    /\ http = <<>>
    /\ uploading = <<>>
    /\ creations = [n \in {"doc_d1", "doc_d2", "doc_d3"} |-> 0]
    /\ indexed = {}

RetryNext == CallOp \/ OpRaises \/ OpReturns \/ Backoff

SpecRetry == InitIdle /\ [][RetryNext]_vars

--------------------------------------------------------------------------
(* config/settings.py *)

SIMILARITY_THRESHOLD == Rat(2, 10)
TOP_K_RETRIEVAL == 3
SIMILARITY_WEIGHT == Rat(5, 10)
\* Variant: source agreement carries no weight.
AGREEMENT_WEIGHT_ZERO == Rat(0, 10)

AGREEMENT_WEIGHT == Rat(5, 10)

--------------------------------------------------------------------------
(* modules/rag_engine.py *)

One == Rat(1, 1)

\* A retrieval score is a distance in thousandths.
Score(s) == Rat(s, 1000)

Scores(docs) == [i \in 1..Len(docs) |-> docs[i].score]

\* 1 - (sum(retrieval_scores) / len(retrieval_scores))
AvgSimilarity(retrieval_scores) ==
    RSub(One, Rat(SumSeq(retrieval_scores), 1000 * Len(retrieval_scores)))

\* Variant: agreement needs more than two sources.
SourceAgreementStrict(sources) ==
    IF Len(sources) > 2 THEN Rat(10, 10) ELSE Rat(7, 10)

\* 1.0 if len(sources) >= 2 else 0.7
SourceAgreement(sources) ==
    IF Len(sources) >= 2 THEN Rat(10, 10) ELSE Rat(7, 10)

\* Variant: the boundaries are exclusive.
CategoryExclusive(confidence) ==
    IF RLt(Rat(7, 10), confidence) THEN "high"
    ELSE IF RLt(Rat(5, 10), confidence) THEN "medium"
    ELSE "low"

\* the if / elif / else on confidence
Category(confidence) ==
    IF RGe(confidence, Rat(7, 10)) THEN "high"
    ELSE IF RGe(confidence, Rat(5, 10)) THEN "medium"
    ELSE "low"

calculate_confidence_score(retrieval_scores, answer, sources) ==
    LET avg_similarity == AvgSimilarity(retrieval_scores)
        source_agreement == SourceAgreement(sources)
        confidence == RAdd(RMul(SIMILARITY_WEIGHT, avg_similarity),
                           RMul(AGREEMENT_WEIGHT, source_agreement))
    IN  [confidence |-> confidence, category |-> Category(confidence)]

\* Variant: the thresholds are inclusive (<= instead of <).
apply_guardrails_inclusive(confidence, retrieval_scores) ==
    LET avg_retrieval ==
            RSub(One, Rat(SumSeq(retrieval_scores), 1000 * Len(retrieval_scores)))
    IN  IF ~RLt(SIMILARITY_THRESHOLD, avg_retrieval) THEN FALSE
        ELSE IF ~RLt(SIMILARITY_THRESHOLD, confidence) THEN FALSE
        ELSE TRUE

apply_guardrails(confidence, retrieval_scores) ==
    LET avg_retrieval ==
            RSub(One, Rat(SumSeq(retrieval_scores), 1000 * Len(retrieval_scores)))
    IN  IF RLt(avg_retrieval, SIMILARITY_THRESHOLD) THEN FALSE
        ELSE IF RLt(confidence, SIMILARITY_THRESHOLD) THEN FALSE
        ELSE TRUE

AbstentionAnswer ==
    "I cannot provide a confident answer based on the available context. The information might not be present in the document, or the retrieved content has low relevance to your question."

NoInformationAnswer == "No relevant information found in the document."

\* One entry of sources; similarity_score is round(1 - score, 3) in
\* thousandths (a distance in thousandths never lands on a tie).
SourceOf(hit) ==
    [content |-> hit.doc.page_content,
     similarity_score |->
         CHOOSE r \in Round3(RSub(One, Score(hit.score))) : TRUE,
     metadata |-> hit.doc.metadata]

\* Variant: an abstaining result carries no sources.
GenerateResultHidingSources(retrieved, answer, rounded) ==
    LET scores == Scores(retrieved)
        cc == calculate_confidence_score(scores, answer, retrieved)
        passes_guardrails == apply_guardrails(cc.confidence, scores)
    IN  [answer |-> IF passes_guardrails THEN answer ELSE AbstentionAnswer,
         confidence_score |-> rounded,
         confidence_category |->
             IF passes_guardrails THEN cc.category ELSE "low",
         sources |-> IF passes_guardrails
                     THEN [i \in 1..Len(retrieved) |-> SourceOf(retrieved[i])]
                     ELSE <<>>,
         passes_guardrails |-> passes_guardrails]

\* generate_answer once llm.invoke has returned `answer`; rounded is the
\* value round(confidence, 3) takes.
GenerateResult(retrieved, answer, rounded) ==
    LET scores == Scores(retrieved)
        cc == calculate_confidence_score(scores, answer, retrieved)
        passes_guardrails == apply_guardrails(cc.confidence, scores)
    IN  [answer |-> IF passes_guardrails THEN answer ELSE AbstentionAnswer,
         confidence_score |-> rounded,
         confidence_category |->
             IF passes_guardrails THEN cc.category ELSE "low",
         sources |-> [i \in 1..Len(retrieved) |-> SourceOf(retrieved[i])],
         passes_guardrails |-> passes_guardrails]

\* Variant: the zero-results dictionary reports passing guardrails.
EmptyResultPassing ==
    [answer |-> NoInformationAnswer,
     confidence_score |-> 0,
     confidence_category |-> "low",
     sources |-> <<>>,
     passes_guardrails |-> TRUE]

\* The dictionary ask_question returns when nothing was retrieved.
EmptyResult ==
    [answer |-> NoInformationAnswer,
     confidence_score |-> 0,
     confidence_category |-> "low",
     sources |-> <<>>,
     passes_guardrails |-> FALSE]

(* utils/helpers.py *)
format_confidence_score(score) ==
    IF RGe(score, Rat(7, 10))
    THEN [category |-> "high", color |-> "green"]
    ELSE IF RGe(score, Rat(5, 10))
    THEN [category |-> "medium", color |-> "yellow"]
    ELSE [category |-> "low", color |-> "red"]

--------------------------------------------------------------------------
(* What the collaborators can do *)

Questions == {"q1", "q2"}

Documents ==
    {[page_content |-> "c1", metadata |-> "m1"],
     [page_content |-> "c2", metadata |-> "m2"]}

\* Distances, in thousandths, the vector index can report.
Distances == {100, 200, 300, 301, 700, 800, 950, 2000}

Hits == [doc : Documents, score : Distances]

\* similarity_search_with_score(query, k): at most k hits.
Retrievals == UNION {[1..n -> Hits] : n \in 0..TOP_K_RETRIEVAL}

LlmAnswers == {"a1", "The information is not found in the document"}

\* Exceptions the embedding service, the index and the model raise here.
AskErrors ==
    {[type |-> "Exception", msg |-> {}],
     [type |-> "Exception", msg |-> {"429"}],
     [type |-> "Exception", msg |-> {"timeout"}],
     [type |-> "ConnectionError", msg |-> {}]}

--------------------------------------------------------------------------
(* RAGEngine.ask_question *)

\* Variant: the call ends normally when the wrapper raises.
SwallowFailure(fr, at) == IF fr.state = "raised" THEN "done" ELSE at

\* Where the call stands after a failed attempt: nothing between the
\* wrapper and the caller of ask_question catches what the wrapper raises
\* (generate_answer's except clause logs and re-raises).
PropagateFailure(fr, at) == IF fr.state = "raised" THEN "failed" ELSE at

\* ask_question is entered; VectorStoreManager() runs the wrapped
\* _initialize_embeddings.
AskQuestion ==
    /\ pc \in {"idle", "done", "failed"}
    /\ w.func # "op"
    /\ \E q \in Questions : question' = q
    /\ pc' = "init_embeddings"
    /\ w' = BeginCall("_initialize_embeddings")
    /\ retrieved_docs' = <<>>
    /\ storeQueries' = 0
    /\ llmCalls' = 0
    /\ llmAnswer' = ""
    /\ scoring' = <<>>
    /\ result' = <<>>
    /\ UNCHANGED <<history, extractVars, storeVars, appVars>>

\* One attempt of _initialize_embeddings.
InitializeEmbeddings ==
    /\ pc = "init_embeddings"
    /\ w.state = "calling"
    /\ \/ \E e \in AskErrors :
            LET fr == AfterFailure(w, e)
            IN  /\ w' = fr
                /\ pc' = PropagateFailure(fr, pc)
       \/ /\ w' = BeginCall("similarity_search")
          /\ pc' = "similarity_search"
    /\ UNCHANGED <<history, question, retrieved_docs, storeQueries, llmCalls,
                   llmAnswer, scoring, result>>
    /\ UNCHANGED <<extractVars, storeVars, appVars>>

\* One attempt of vsm.similarity_search; on its return ask_question either
\* returns the zero-results dictionary or enters generate_answer.
SimilaritySearch ==
    /\ pc = "similarity_search"
    /\ w.state = "calling"
    /\ storeQueries' = storeQueries + 1
    /\ \/ \E e \in AskErrors :
            LET fr == AfterFailure(w, e)
            IN  /\ w' = fr
                /\ pc' = PropagateFailure(fr, pc)
                /\ UNCHANGED <<retrieved_docs, result>>
       \/ \E hits \in Retrievals :
            /\ retrieved_docs' = hits
            /\ IF hits = <<>>
               THEN /\ w' = AfterSuccess(w, NoVal)
                    /\ result' = <<EmptyResult>>
                    /\ pc' = "done"
               ELSE /\ w' = BeginCall("generate_answer")
                    /\ result' = result
                    /\ pc' = "generate_answer"
    /\ UNCHANGED <<history, question, llmCalls, llmAnswer, scoring>>
    /\ UNCHANGED <<extractVars, storeVars, appVars>>

\* Variant: a failed generation goes back to the store for its chunks.
GenerateAnswerRequerying ==
    /\ pc = "generate_answer"
    /\ w.state = "calling"
    /\ llmCalls' = llmCalls + 1
    /\ \/ \E e \in AskErrors :
            LET fr == AfterFailure(w, e)
            IN  /\ w' = IF fr.state = "raised"
                        THEN fr ELSE BeginCall("similarity_search")
                /\ pc' = IF fr.state = "raised"
                         THEN "failed" ELSE "similarity_search"
                /\ UNCHANGED <<llmAnswer, scoring, result>>
       \/ \E a \in LlmAnswers :
            LET cc == calculate_confidence_score(
                          Scores(retrieved_docs), a, retrieved_docs)
            IN  /\ llmAnswer' = a
                /\ scoring' = <<cc>>
                /\ \E r \in Round3(cc.confidence) :
                       result' = <<GenerateResult(retrieved_docs, a, r)>>
                /\ w' = AfterSuccess(w, NoVal)
                /\ pc' = "done"
    /\ UNCHANGED <<history, question, retrieved_docs, storeQueries>>
    /\ UNCHANGED <<extractVars, storeVars, appVars>>

\* One attempt of generate_answer: llm.invoke raises (the except clause
\* logs and re-raises) or returns, and the answer is scored and guarded.
GenerateAnswer ==
    /\ pc = "generate_answer"
    /\ w.state = "calling"
    /\ llmCalls' = llmCalls + 1
    /\ \/ \E e \in AskErrors :
            LET fr == AfterFailure(w, e)
            IN  /\ w' = fr
                /\ pc' = PropagateFailure(fr, pc)
                /\ UNCHANGED <<llmAnswer, scoring, result>>
       \/ \E a \in LlmAnswers :
            LET cc == calculate_confidence_score(
                          Scores(retrieved_docs), a, retrieved_docs)
            IN  /\ llmAnswer' = a
                /\ scoring' = <<cc>>
                /\ \E r \in Round3(cc.confidence) :
                       result' = <<GenerateResult(retrieved_docs, a, r)>>
                /\ w' = AfterSuccess(w, NoVal)
                /\ pc' = "done"
    /\ UNCHANGED <<history, question, retrieved_docs, storeQueries>>
    /\ UNCHANGED <<extractVars, storeVars, appVars>>

Init == InitIdle

Next ==
    \/ AskQuestion
    \/ InitializeEmbeddings
    \/ SimilaritySearch
    \/ GenerateAnswer
    \/ Backoff

Spec == Init /\ [][Next]_vars

--------------------------------------------------------------------------
(* models/schemas.py: ShipmentData, and the JSON the model answers with    *)

\* The fields ShipmentData declares, each Optional[str] = None.
Fields ==
    {"shipment_id", "shipper", "consignee", "pickup_datetime",
     "delivery_datetime", "equipment_type", "mode", "rate", "currency",
     "weight", "carrier_name"}

\* A key that is no field of the schema.
ExtraKey == "notes"

Keys == Fields \cup {ExtraKey}

\* A field of a ShipmentData: None, or a str.
Absent == [k |-> "none", s |-> ""]
Str(s) == [k |-> "str", s |-> s]

\* A member of a JSON object: no such key, null, a string, or a value that
\* is neither (an array).
JMissing == [k |-> "missing", s |-> ""]
JNull == [k |-> "null", s |-> ""]
JStr(s) == [k |-> "str", s |-> s]
JArray == [k |-> "array", s |-> ""]

\* ShipmentData(): every field at its default.
AllAbsent == [f \in Fields |-> Absent]

\* Variant: a placeholder string is normalised to None.
FieldOfNormalised(v) ==
    IF v.k = "str" /\ v.s # "N/A" THEN Str(v.s) ELSE Absent

\* What pydantic stores for one Optional[str] field given v: the string
\* as it is, None for null and for a key that was not passed.
FieldOf(v) ==
    IF v.k = "str" THEN Str(v.s) ELSE Absent

\* Variant: the model is configured to forbid extra keys.
ShipmentDataForbidExtra(members) ==
    IF \/ \E f \in Fields : members[f].k = "array"
       \/ \E x \in Keys \ Fields : members[x].k # "missing"
    THEN [exc |-> [type |-> "ValidationError", msg |-> {}],
          value |-> AllAbsent]
    ELSE [exc |-> NoExc, value |-> [f \in Fields |-> FieldOf(members[f])]]

\* ShipmentData(**members): a field given a value that is neither str nor
\* None fails validation; keys that are no fields are ignored (the model
\* sets no extra policy, pydantic's default is to ignore them).
ShipmentData(members) ==
    IF \E f \in Fields : members[f].k = "array"
    THEN [exc |-> [type |-> "ValidationError", msg |-> {}],
          value |-> AllAbsent]
    ELSE [exc |-> NoExc, value |-> [f \in Fields |-> FieldOf(members[f])]]

--------------------------------------------------------------------------
(* modules/extractor.py: the text of response.content                      *)
(* A text is a sequence of tokens: white space, a code fence, the word     *)
(* json, prose, a well-formed JSON document (DOC, whose parsed value is    *)
(* carried beside the text) and a truncated one (TRUNC).                   *)

WS == " "
FENCE == "[fence]"
TAG == "json"
PROSE == "Here is the extracted data:"
DOC == "{...}"
TRUNC == "{..."

\* str.strip()
RECURSIVE LStrip(_)
LStrip(t) == IF t # <<>> /\ Head(t) = WS THEN LStrip(Tail(t)) ELSE t

RECURSIVE RStrip(_)
RStrip(t) ==
    IF t # <<>> /\ t[Len(t)] = WS
    THEN RStrip(SubSeq(t, 1, Len(t) - 1))
    ELSE t

Strip(t) == RStrip(LStrip(t))

\* str.startswith
StartsWith(t, tok) == t # <<>> /\ Head(t) = tok

\* The text before the first fence of t.
RECURSIVE UpToFence(_)
UpToFence(t) ==
    IF t = <<>> \/ Head(t) = FENCE
    THEN <<>>
    ELSE <<Head(t)>> \o UpToFence(Tail(t))

\* result_text.split(fence)[1], for a text that starts with a fence.
SplitFence1(t) == UpToFence(Tail(t))

\* The text handed to json.loads: stripped, a leading code fence and its
\* json tag removed, stripped again.
ResultText(content) ==
    LET stripped == Strip(content)
        inner == SplitFence1(stripped)
        unfenced == IF StartsWith(stripped, FENCE)
                    THEN IF StartsWith(inner, TAG) THEN Tail(inner)
                         ELSE inner
                    ELSE stripped
    IN  Strip(unfenced)

\* json.loads accepts one document with white space around it and raises
\* JSONDecodeError on anything else.
json_loads_ok(t) == Strip(t) = <<DOC>>

\* The value {} parses to.
EmptyObject == [kind |-> "object", members |-> [x \in Keys |-> JMissing]]

\* extracted_data: the parsed document, or {} after JSONDecodeError.
ExtractedData(resp) ==
    IF json_loads_ok(ResultText(resp.text)) THEN resp.doc ELSE EmptyObject

\* Variant: a field the schema rejects is dropped and the others kept.
BuildShipmentDataLenient(extracted_data) ==
    IF extracted_data.kind # "object"
    THEN [exc |-> [type |-> "TypeError", msg |-> {}], value |-> AllAbsent]
    ELSE [exc |-> NoExc,
          value |-> [f \in Fields |->
                        IF extracted_data.members[f].k = "array"
                        THEN Absent
                        ELSE FieldOf(extracted_data.members[f])]]

\* ShipmentData(**extracted_data): ** on a value that is no mapping raises
\* TypeError.
BuildShipmentData(extracted_data) ==
    IF extracted_data.kind # "object"
    THEN [exc |-> [type |-> "TypeError", msg |-> {}], value |-> AllAbsent]
    ELSE ShipmentData(extracted_data.members)

\* Variant: the outer except clause logs and re-raises.
ExceptReraise(at, e) ==
    [raised |-> TRUE, exc |-> e, caught |-> <<[at |-> at, exc |-> e]>>,
     value |-> AllAbsent]

\* The outer except clause of extract_shipment_data: whatever was raised
\* inside the try block is logged and ShipmentData() is returned.
ExceptReturnEmpty(at, e) ==
    [raised |-> FALSE, exc |-> NoExc, caught |-> <<[at |-> at, exc |-> e]>>,
     value |-> AllAbsent]

\* The rest of the try block once llm.invoke has returned resp.
AfterInvoke(resp) ==
    LET built == BuildShipmentData(ExtractedData(resp))
    IN  IF built.exc # NoExc
        THEN ExceptReturnEmpty("build", built.exc)
        ELSE [raised |-> FALSE, exc |-> NoExc, caught |-> <<>>,
              value |-> built.value]

--------------------------------------------------------------------------
(* What the model can answer to the extraction prompt *)

\* How many keys of an answer differ from the answer it is derived from.
MaxDeviations == 2

SampleValues ==
    [shipment_id |-> "SH-1001", shipper |-> "Acme Corp",
     consignee |-> "Globex Inc", pickup_datetime |-> "2024-01-15 08:00",
     delivery_datetime |-> "2024-01-17 17:00",
     equipment_type |-> "Flatbed", mode |-> "FTL", rate |-> "1,250.00",
     currency |-> "USD", weight |-> "42,000 lbs",
     carrier_name |-> "Swift Logistics"]

\* The answer the prompt asks for, and the empty object.
FullObject ==
    [x \in Keys |-> IF x \in Fields THEN JStr(SampleValues[x]) ELSE JMissing]

BaseObjects == {FullObject, EmptyObject.members}

DeviationValues == {JMissing, JNull, JStr(""), JStr("N/A"), JArray}

Deviate(base, dev) ==
    [x \in Keys |-> IF x \in DOMAIN dev THEN dev[x] ELSE base[x]]

Objects ==
    UNION { UNION { {Deviate(base, dev) : dev \in [D -> DeviationValues]} :
                    D \in {S \in SUBSET Keys :
                              Cardinality(S) <= MaxDeviations} } :
            base \in BaseObjects }

\* Parsed documents: objects, and documents that are no object.
Docs ==
    {[kind |-> "object", members |-> m] : m \in Objects}
      \cup {[kind |-> "array", members |-> EmptyObject.members],
            [kind |-> "null", members |-> EmptyObject.members]}

TextsWithDoc ==
    { <<DOC>>,
      <<WS, DOC, WS>>,
      <<FENCE, TAG, WS, DOC, WS, FENCE>>,
      <<FENCE, WS, DOC, WS, FENCE>>,
      <<FENCE, TAG, WS, DOC, WS, FENCE, WS, PROSE>>,
      <<PROSE, WS, DOC>>,
      <<PROSE, WS, FENCE, TAG, WS, DOC, WS, FENCE>> }

TextsWithoutDoc ==
    { <<TRUNC>>, <<FENCE, TAG, WS, TRUNC>>, <<PROSE>> }

Responses ==
    {[text |-> t, doc |-> d] : t \in TextsWithDoc, d \in Docs}
      \cup {[text |-> t, doc |-> EmptyObject] : t \in TextsWithoutDoc}

--------------------------------------------------------------------------
(* StructuredExtractor.extract_shipment_data *)

\* What the retry wrapper makes of one execution of the function body.
AfterBody(fr, out) ==
    IF out.raised THEN AfterFailure(fr, out.exc) ELSE AfterSuccess(fr, NoVal)

\* Where the call stands once the body has ended with frame fr.
ExtractPcAfter(fr) ==
    IF fr.state = "returned" THEN "returned"
    ELSE IF fr.state = "raised" THEN "failed"
    ELSE "context"

\* The wrapper around extract_shipment_data is entered.
ExtractShipmentData ==
    /\ extract_pc \in {"idle", "returned", "failed"}
    /\ pc = "idle"
    /\ w.func \in {"none", "extract_shipment_data"}
    /\ w' = BeginCall("extract_shipment_data")
    /\ extract_pc' = "context"
    /\ response' = <<>>
    /\ caught' = <<>>
    /\ shipment_data' = <<>>
    /\ ctxQueries' = 0
    /\ invokes' = 0
    /\ UNCHANGED <<history, askVars, storeVars, appVars>>

\* _get_document_context: vector_store.similarity_search raises (logged,
\* re-raised, caught by the outer except clause) or returns the chunks.
GetDocumentContext ==
    /\ extract_pc = "context"
    /\ w.state = "calling"
    /\ ctxQueries' = ctxQueries + 1
    /\ \/ \E e \in AskErrors :
            LET out == ExceptReturnEmpty("store", e)
                fr == AfterBody(w, out)
            IN  /\ w' = fr
                /\ extract_pc' = ExtractPcAfter(fr)
                /\ caught' = out.caught
                /\ shipment_data' =
                       IF fr.state = "returned" THEN <<out.value>> ELSE <<>>
       \/ /\ extract_pc' = "invoke"
          /\ UNCHANGED <<w, caught, shipment_data>>
    /\ UNCHANGED <<history, askVars, response, invokes, storeVars, appVars>>

\* llm.invoke raises, or returns a response that is unwrapped, parsed and
\* validated; either way the body ends here.
InvokeLlm ==
    /\ extract_pc = "invoke"
    /\ w.state = "calling"
    /\ invokes' = invokes + 1
    /\ \/ \E e \in AskErrors :
            LET out == ExceptReturnEmpty("llm", e)
                fr == AfterBody(w, out)
            IN  /\ w' = fr
                /\ extract_pc' = ExtractPcAfter(fr)
                /\ caught' = out.caught
                /\ response' = <<>>
                /\ shipment_data' =
                       IF fr.state = "returned" THEN <<out.value>> ELSE <<>>
       \/ \E resp \in Responses :
            LET out == AfterInvoke(resp)
                fr == AfterBody(w, out)
            IN  /\ w' = fr
                /\ extract_pc' = ExtractPcAfter(fr)
                /\ caught' = out.caught
                /\ response' = <<resp>>
                /\ shipment_data' =
                       IF fr.state = "returned" THEN <<out.value>> ELSE <<>>
    /\ UNCHANGED <<history, askVars, ctxQueries, storeVars, appVars>>

ExtractNext ==
    \/ ExtractShipmentData
    \/ GetDocumentContext
    \/ InvokeLlm

SpecExtract == InitIdle /\ [][ExtractNext]_vars

--------------------------------------------------------------------------
(* modules/vector_store.py: VectorStoreManager over the persisted index    *)

DocIds == {"d1", "d2", "d3"}

\* collection_name = f"doc_{document_id}"
CollectionName(d) ==
    CASE d = "d1" -> "doc_d1"
      [] d = "d2" -> "doc_d2"
      [] d = "d3" -> "doc_d3"

CollectionNames == {CollectionName(d) : d \in DocIds}

\* Chroma(collection_name=..., persist_directory=...) either raises or
\* returns a store on the collection of that name; the constructor gets
\* or creates the collection, so it then exists whether or not it did.
OpenOutcomes == {"opened", "raises"}

\* vector_store.delete_collection() deletes the collection or raises.
DeleteOutcomes == {"deleted", "raises"}

\* Chroma.from_documents(...) and persist(): the collection is created and
\* filled, or an exception is raised before or after its creation.
CreateOutcomes == {"created", "raises_before", "raises_after"}

\* Variant: a failed open leaves the index without the collection.
load_vector_store_resetting(collection_name, cols, opening) ==
    IF opening = "opened"
    THEN [ret |-> "store", collections |-> cols \cup {collection_name}]
    ELSE [ret |-> "None", collections |-> cols \ {collection_name}]

\* Variant: the exception of the Chroma constructor is not caught.
load_vector_store_raising(collection_name, cols, opening) ==
    IF opening = "opened"
    THEN [ret |-> "store", collections |-> cols \cup {collection_name}]
    ELSE [ret |-> "raised", collections |-> cols]

\* load_vector_store: the store, or None when the constructor raised.
load_vector_store(collection_name, cols, opening) ==
    IF opening = "opened"
    THEN [ret |-> "store", collections |-> cols \cup {collection_name}]
    ELSE [ret |-> "None", collections |-> cols]

\* delete_collection: True when the store was loaded and its collection
\* deleted, False when load_vector_store gave None or the deletion raised.
delete_collection(collection_name, cols, opening, deleting) ==
    LET loaded == load_vector_store(collection_name, cols, opening)
    IN  IF loaded.ret = "store"
        THEN IF deleting = "deleted"
             THEN [ret |-> "True",
                   collections |-> loaded.collections \ {collection_name}]
             ELSE [ret |-> "False", collections |-> loaded.collections]
        ELSE [ret |-> "False", collections |-> loaded.collections]

\* One execution of the body of create_vector_store.
create_vector_store(collection_name, cols, creating) ==
    IF creating = "created"
    THEN [ret |-> "store", collections |-> cols \cup {collection_name}]
    ELSE IF creating = "raises_after"
    THEN [ret |-> "raised", collections |-> cols \cup {collection_name}]
    ELSE [ret |-> "raised", collections |-> cols]

StoreCallRecord(op, name, opening, deleting, ret) ==
    <<[op |-> op, collection_name |-> name,
       existed |-> name \in collections,
       opening |-> opening, deleting |-> deleting, ret |-> ret]>>

CreateVectorStore ==
    /\ \E name \in CollectionNames, creating \in CreateOutcomes :
          LET r == create_vector_store(name, collections, creating)
          IN  /\ collections' = r.collections
              /\ storeCall' = StoreCallRecord("create_vector_store", name,
                                              creating, "n/a", r.ret)
    /\ UNCHANGED <<w, history, askVars, extractVars, appVars>>

LoadVectorStore ==
    /\ \E name \in CollectionNames, opening \in OpenOutcomes :
          LET r == load_vector_store(name, collections, opening)
          IN  /\ collections' = r.collections
              /\ storeCall' = StoreCallRecord("load_vector_store", name,
                                              opening, "n/a", r.ret)
    /\ UNCHANGED <<w, history, askVars, extractVars, appVars>>

DeleteCollection ==
    /\ \E name \in CollectionNames, opening \in OpenOutcomes,
          deleting \in DeleteOutcomes :
          LET r == delete_collection(name, collections, opening, deleting)
          IN  /\ collections' = r.collections
              /\ storeCall' = StoreCallRecord("delete_collection", name,
                                              opening, deleting, r.ret)
    /\ UNCHANGED <<w, history, askVars, extractVars, appVars>>

StoreNext ==
    \/ CreateVectorStore
    \/ LoadVectorStore
    \/ DeleteCollection

SpecStore == InitIdle /\ [][StoreNext]_vars

--------------------------------------------------------------------------
(* app.py: the handlers *)

NotFoundDetail == "Document not found. Please upload the document first."
LoadFailedDetail == "Failed to load document vector store"

Http(code, detail, body) ==
    <<[status |-> code, detail |-> detail, body |-> body]>>

Request(route, d, opening, loaded, engine_calls, extractor_calls, outcome) ==
    <<[route |-> route, document_id |-> d, opening |-> opening,
       loaded |-> loaded, outcome |-> outcome,
       engine_calls |-> engine_calls,
       extractor_calls |-> extractor_calls]>>

\* What rag_engine.ask_question gives the handler: it raises (<<>>) or
\* returns a result.
ResultFor(hits) ==
    LET cc == calculate_confidence_score(Scores(hits), "a1", hits)
    IN  GenerateResult(hits, "a1",
                       CHOOSE r \in Round3(cc.confidence) : TRUE)

EngineOutcomes ==
    {<<>>, <<EmptyResult>>}
      \cup {<<ResultFor(<<[doc |-> [page_content |-> "c1",
                                     metadata |-> "m1"],
                             score |-> s]>>)>> : s \in {100, 950, 2000}}

\* What extractor.extract_shipment_data gives the handler.
ExtractorOutcomes ==
    {<<AllAbsent>>, <<ShipmentData(FullObject).value>>}

\* AskResponse(success=True, ...)
AskResponseOf(r) ==
    [success |-> TRUE, answer |-> r.answer,
     confidence_score |-> r.confidence_score,
     confidence_category |-> r.confidence_category,
     sources |-> r.sources]

\* What can happen to an upload before its chunks reach the index.
UploadOutcomes ==
    {"invalid_extension", "too_large", "save_fails", "process_fails",
     "chunks"}

UploadFailedDetail == "Error processing document"

\* Variant: an id that was produced before can be produced again.
AnyIds(used) == DocIds

\* generate_document_id: a uuid4, never one that was produced before.
FreshIds(used) == DocIds \ used

\* Variant: the document is registered whatever create_vector_store did.
RegisterAlways(registry, d, ret) == registry \cup {d}

\* document_registry[document_id] = {...} is reached only when
\* create_vector_store returned; an exception skips it.
RegisterAfter(registry, d, ret) ==
    IF ret = "store" THEN registry \cup {d} ELSE registry

\* POST /upload, up to the call of create_vector_store: the checks, the
\* fresh id, the file, the chunks.  The handler does not await between the
\* id and its return, so no other request is served until it has ended.
UploadDocument ==
    /\ uploading = <<>>
    /\ \E out \in UploadOutcomes :
          IF out \in {"invalid_extension", "too_large"}
          THEN /\ request' = Request("/upload", "", "n/a", "n/a", 0, 0, <<>>)
               /\ http' = Http(400, out, <<>>)
               /\ UNCHANGED <<w, files, issued, uploading>>
          ELSE \E d \in FreshIds(issued) :
                 /\ issued' = issued \cup {d}
                 /\ request' =
                      Request("/upload", d, "n/a", "n/a", 0, 0, <<>>)
                 /\ IF out = "save_fails"
                    THEN /\ http' = Http(500, UploadFailedDetail, <<>>)
                         /\ UNCHANGED <<w, files, uploading>>
                    ELSE IF out = "process_fails"
                    THEN /\ files' = files \cup {d}
                         /\ http' = Http(500, UploadFailedDetail, <<>>)
                         /\ UNCHANGED <<w, uploading>>
                    ELSE /\ files' = files \cup {d}
                         /\ uploading' = <<d>>
                         /\ w' = BeginCall("create_vector_store")
                         /\ http' = <<>>
    /\ UNCHANGED <<history, askVars, extractVars, storeVars,
                   document_registry, creations, indexed>>

\* One execution of the body of create_vector_store for the upload in
\* progress, and what upload_document does when the wrapper ends (its
\* frame is then gone).
FromDocuments ==
    /\ uploading # <<>>
    /\ w.state = "calling"
    /\ LET d == uploading[1]
           name == CollectionName(d)
       IN  /\ creations' = [creations EXCEPT ![name] = @ + 1]
           /\ \E creating \in CreateOutcomes :
                LET r == create_vector_store(name, collections, creating)
                IN  /\ collections' = r.collections
                    /\ IF r.ret = "store"
                       THEN /\ w' = IdleFrame
                            /\ indexed' = indexed \cup {d}
                            /\ document_registry' =
                                 RegisterAfter(document_registry, d, r.ret)
                            /\ http' = Http(200, "", <<>>)
                            /\ uploading' = <<>>
                       ELSE \E e \in AskErrors :
                              LET fr == AfterFailure(w, e)
                              IN  /\ w' = IF fr.state = "raised"
                                           THEN IdleFrame ELSE fr
                                  /\ indexed' = indexed
                                  /\ IF fr.state = "raised"
                                     THEN /\ document_registry' =
                                               RegisterAfter(
                                                   document_registry, d,
                                                   r.ret)
                                          /\ http' = Http(500,
                                               UploadFailedDetail, <<>>)
                                          /\ uploading' = <<>>
                                     ELSE UNCHANGED <<document_registry,
                                                      http, uploading>>
    /\ UNCHANGED <<history, askVars, extractVars, storeCall, files, issued,
                   request>>

\* Variant: a result that did not pass the guardrail is answered as an
\* error.
AskHttpAbstentionAsError(out) ==
    IF out = <<>> \/ ~out[1].passes_guardrails
    THEN Http(500, "Error processing question", <<>>)
    ELSE Http(200, "", <<AskResponseOf(out[1])>>)

\* What the /ask handler answers once rag_engine.ask_question has raised
\* (<<>>) or returned.
AskHttp(out) ==
    IF out = <<>>
    THEN Http(500, "Error processing question", <<>>)
    ELSE Http(200, "", <<AskResponseOf(out[1])>>)

\* POST /ask
AskHandler ==
    /\ uploading = <<>>
    /\ \E d \in DocIds, opening \in OpenOutcomes, out \in EngineOutcomes :
          IF d \notin document_registry
          THEN /\ request' = Request("/ask", d, "n/a", "n/a", 0, 0, <<>>)
               /\ http' = Http(404, NotFoundDetail, <<>>)
               /\ collections' = collections
          ELSE LET l == load_vector_store(CollectionName(d), collections,
                                          opening)
               IN  /\ collections' = l.collections
                   /\ IF l.ret = "raised"
                      THEN /\ request' = Request("/ask", d, opening, l.ret,
                                                 0, 0, <<>>)
                           /\ http' = Http(500, "Error processing question",
                                           <<>>)
                      ELSE IF l.ret = "None"
                      THEN /\ request' = Request("/ask", d, opening, l.ret,
                                                 0, 0, <<>>)
                           /\ http' = Http(500, LoadFailedDetail, <<>>)
                      ELSE /\ request' = Request("/ask", d, opening, l.ret,
                                                 1, 0, out)
                           /\ http' = AskHttp(out)
    /\ UNCHANGED <<w, history, askVars, extractVars, storeCall,
                   document_registry, files, issued, uploading, creations,
                   indexed>>

\* POST /extract
ExtractHandler ==
    /\ uploading = <<>>
    /\ \E d \in DocIds, opening \in OpenOutcomes,
          out \in ExtractorOutcomes :
          IF d \notin document_registry
          THEN /\ request' = Request("/extract", d, "n/a", "n/a", 0, 0, <<>>)
               /\ http' = Http(404, NotFoundDetail, <<>>)
               /\ collections' = collections
          ELSE LET l == load_vector_store(CollectionName(d), collections,
                                          opening)
               IN  /\ collections' = l.collections
                   /\ IF l.ret = "raised"
                      THEN /\ request' = Request("/extract", d, opening,
                                                 l.ret, 0, 0, <<>>)
                           /\ http' = Http(500, "Error extracting data",
                                           <<>>)
                      ELSE IF l.ret = "None"
                      THEN /\ request' = Request("/extract", d, opening,
                                                 l.ret, 0, 0, <<>>)
                           /\ http' = Http(500, LoadFailedDetail, <<>>)
                      ELSE /\ request' = Request("/extract", d, opening,
                                                 l.ret, 0, 1, out)
                           /\ http' =
                                Http(200,
                                     "Structured data extracted successfully",
                                     <<[success |-> TRUE,
                                        document_id |-> d,
                                        shipment_data |-> out[1]]>>)
    /\ UNCHANGED <<w, history, askVars, extractVars, storeCall,
                   document_registry, files, issued, uploading, creations,
                   indexed>>

\* DELETE /document/{document_id}: the value delete_collection returns is
\* not looked at.
DeleteDocument ==
    /\ uploading = <<>>
    /\ \E d \in DocIds, removing \in {"removed", "raises"},
          opening \in OpenOutcomes, deleting \in DeleteOutcomes :
          /\ request' = Request("/document", d, "n/a", "n/a", 0, 0, <<>>)
          /\ IF d \notin document_registry
             THEN /\ http' = Http(404, "Document not found", <<>>)
                  /\ UNCHANGED <<document_registry, files, collections>>
             ELSE IF d \in files /\ removing = "raises"
             THEN /\ http' = Http(500, "Error deleting document", <<>>)
                  /\ UNCHANGED <<document_registry, files, collections>>
             ELSE /\ files' = files \ {d}
                  /\ collections' =
                       delete_collection(CollectionName(d), collections,
                                         opening, deleting).collections
                  /\ document_registry' = document_registry \ {d}
                  /\ http' = Http(200, "Document deleted successfully", <<>>)
    /\ UNCHANGED <<w, history, askVars, extractVars, storeCall, issued,
                   uploading, creations, indexed>>

AppNext ==
    \/ UploadDocument
    \/ FromDocuments
    \/ Backoff
    \/ AskHandler
    \/ ExtractHandler
    \/ DeleteDocument

SpecApp == InitIdle /\ [][AppNext]_vars

--------------------------------------------------------------------------
(* Properties of the retry wrapper (checked under SpecRetry)               *)

IsPrefix(h, s) == Len(h) <= Len(s) /\ \A i \in 1..Len(h) : h[i] = s[i]

Finished == w.state \in {"returned", "raised"}

\* The markers section 4.1 of the specification names: rate limiting,
\* capacity exhaustion, transient unavailability, timeout, connection
\* failure.
SpecMarkers ==
    {"rate limit", "429", "token limit", "tokens", "503",
     "service unavailable", "timeout", "connection"}

HasSpecMarker(e) == e.msg \cap SpecMarkers # {}

IsRetriedType(t) ==
    \/ t \in {"RateLimitError", "TokenLimitError", "ServiceUnavailableError"}
    \/ t \in {"ConnectionError", "ConnectionResetError", "TimeoutError"}

\* C1: one call of the wrapper invokes the operation at most 3 times; when
\* all 3 attempts fail the wrapper is finished, having raised the error of
\* the last (third) attempt to its caller, and no 4th attempt is made.
C1_AtMostThreeAttempts ==
    /\ w.calls <= 3
    /\ Len(history) = w.calls
    /\ (Len(history) = 3 /\ ~history[3].ok) =>
          /\ w.state = "raised"
          /\ w.exc.msg = history[3].exc.msg
          /\ w.exc.type \in {history[3].exc.type} \cup RetryTypes

C1_Witness ==
    /\ w.state = "raised"
    /\ w.calls = 3
    /\ history[2].exc # history[3].exc

\* C2: an operation that fails with one and the same error, classified
\* retriable, on attempts 1 and 2 and succeeds on attempt 3 makes the
\* wrapper return the success value after exactly 2 waits and exactly 3
\* invocations: a finished call whose invocations follow that script has
\* run the whole script.
C2_RetriableTwiceThenSuccess ==
    \A e \in Errors, v \in Values :
        ( /\ is_retriable_error(e)
          /\ Finished
          /\ IsPrefix(history, <<Fail(e), Fail(e), Ok(v)>>) )
        => /\ w.state = "returned"
           /\ w.val = v
           /\ Len(w.sleeps) = 2
           /\ w.calls = 3

\* C3: a failure whose message carries one of the markers is retried
\* whenever fewer than 3 attempts have been made, whatever its type: the
\* wrapper never raises before the third attempt on such a failure.
C3_MarkerIsRetried ==
    (w.state = "raised" /\ w.calls < 3) => ~HasSpecMarker(history[w.calls].exc)

\* C4 as stated: an error whose message carries none of the markers
\* propagates on the first attempt, with one invocation and no wait.
C4_NoMarkerPropagatesAtOnce ==
    (Len(history) >= 1 /\ ~history[1].ok /\ ~HasSpecMarker(history[1].exc))
    => /\ w.state = "raised"
       /\ w.calls = 1
       /\ w.sleeps = <<>>

\* C4 amended: an error whose message carries none of the markers and whose
\* type is none of the retried exception types (nor a subclass of one)
\* propagates unchanged on the first attempt, with exactly one invocation
\* and no wait.
C4_NoMarkerNoRetriedTypePropagatesAtOnce ==
    ( /\ Len(history) >= 1
      /\ ~history[1].ok
      /\ ~HasSpecMarker(history[1].exc)
      /\ ~IsRetriedType(history[1].exc.type) )
    => /\ w.state = "raised"
       /\ w.calls = 1
       /\ w.sleeps = <<>>
       /\ w.exc = history[1].exc

C4_Witness ==
    /\ w.state = "raised"
    /\ w.calls = 1
    /\ history = <<Fail([type |-> "Exception", msg |-> {}])>>

\* C5: a wait occurs only between a failed attempt that is retried and the
\* next attempt: none before attempt 1, none after the final attempt; the
\* wait after failed attempt n is min(2^(n-1), 10) seconds (1 s, then 2 s),
\* never below 1 s nor above 10 s.
C5_BackoffWaits ==
    /\ \A i \in 1..Len(w.sleeps) :
          /\ w.sleeps[i] = Min(2 ^ (i - 1), 10)
          /\ w.sleeps[i] >= 1 /\ w.sleeps[i] <= 10
          /\ i <= Len(history)
          /\ ~history[i].ok
          /\ HasSpecMarker(history[i].exc) \/ IsRetriedType(history[i].exc.type)
    /\ (Len(w.sleeps) >= 1 => w.sleeps[1] = 1)
    /\ (Len(w.sleeps) >= 2 => w.sleeps[2] = 2)
    /\ (w.state = "calling" => Len(w.sleeps) = w.calls)
    /\ (w.state \in {"backoff", "returned", "raised"}
          => Len(w.sleeps) = w.calls - 1)

C5_Witness ==
    /\ Finished
    /\ w.calls = 3
    /\ w.sleeps = <<1, 2>>

\* C6 as stated: when the wrapper gives up after the 3rd failed attempt the
\* caller receives an error of the same type as the one the operation
\* raised on its last attempt.
C6_SameKindAsRaised ==
    (w.state = "raised" /\ w.calls = 3) => w.exc.type = history[3].exc.type

\* C6 amended: when the wrapper gives up after the 3rd failed attempt the
\* caller receives the last attempt's error as the wrapper converted it,
\* with the same message: a RateLimitError when the message has a
\* rate-limit marker, else a TokenLimitError when it has a token marker,
\* else a ServiceUnavailableError when it has a 503 marker, and otherwise
\* an error of the type the operation raised on its last attempt.
C6_KindAfterConversion ==
    (w.state = "raised" /\ w.calls = 3) =>
        LET e == history[3].exc
        IN  /\ w.exc.msg = e.msg
            /\ w.exc.type =
                 IF e.msg \cap {"rate limit", "429"} # {}
                 THEN "RateLimitError"
                 ELSE IF e.msg \cap {"token limit", "tokens"} # {}
                 THEN "TokenLimitError"
                 ELSE IF e.msg \cap {"503", "service unavailable"} # {}
                 THEN "ServiceUnavailableError"
                 ELSE e.type

C6_Witness ==
    /\ w.state = "raised"
    /\ w.calls = 3
    /\ history[3].exc.type = "Exception"
    /\ w.exc.type = "TokenLimitError"

--------------------------------------------------------------------------
(* Properties of ask_question (checked under Spec)                         *)

Answered == pc = "done" /\ retrieved_docs # <<>>

\* C7: when retrieval returns zero chunks ask_question ends at once with
\* the fixed no-information answer, confidence 0.0, category low, no
\* sources and passes_guardrails false, whatever the question, and the
\* language model is never invoked in that call.
C7_ZeroChunksShortCircuit ==
    /\ (pc = "done" /\ retrieved_docs = <<>>) =>
          /\ result =
               << [answer |-> "No relevant information found in the document.",
                   confidence_score |-> 0,
                   confidence_category |-> "low",
                   sources |-> <<>>,
                   passes_guardrails |-> FALSE] >>
          /\ llmCalls = 0
          /\ scoring = <<>>
    /\ (retrieved_docs = <<>>) => (llmCalls = 0 /\ pc # "generate_answer")

C7_Witness ==
    /\ pc = "done"
    /\ retrieved_docs = <<>>
    /\ storeQueries = 2
    /\ question = "q2"

\* C8: generate_answer returns passes_guardrails = false exactly when
\* 1 - mean(distances) is below the threshold (0.2) or the confidence is
\* below it; then the answer is the fixed abstention text, whatever the
\* model generated, and the category is low; otherwise the answer is the
\* model's output, the category the computed one and passes_guardrails
\* true.
C8_GuardrailDecides ==
    Answered =>
        LET r == result[1]
            n == Len(retrieved_docs)
            sum == SumSeq(Scores(retrieved_docs))
            conf == scoring[1].confidence
            lowRetrieval == 10 * (1000 * n - sum) < 2 * 1000 * n
            lowConfidence == 10 * conf.n < 2 * conf.d
            abstain == lowRetrieval \/ lowConfidence
        IN  /\ r.passes_guardrails = ~abstain
            /\ abstain =>
                  /\ r.answer = AbstentionAnswer
                  /\ r.confidence_category = "low"
            /\ ~abstain =>
                  /\ r.answer = llmAnswer
                  /\ r.confidence_category = scoring[1].category

C8_Witness ==
    /\ Answered
    /\ llmAnswer = "a1"
    /\ result[1].answer = AbstentionAnswer
    /\ ~result[1].passes_guardrails
    /\ scoring[1].category = "medium"

\* C9: the confidence is 0.5 * (1 - sum(distances)/count(distances)) +
\* 0.5 * sourceAgreement, with sourceAgreement 1.0 for at least 2 chunks
\* and 0.7 for exactly 1; distances [0.1, 0.3, 0.2] give 0.9 (high, the
\* guardrail passes) and [0.95] gives 0.375 (low, forced abstention).
C9_ConfidenceFormula ==
    Answered =>
        LET r == result[1]
            n == Len(retrieved_docs)
            sum == SumSeq(Scores(retrieved_docs))
            conf == scoring[1].confidence
            agreementTenths == IF n >= 2 THEN 10 ELSE 7
        IN  /\ conf.n * 2000 * n
                 = (1000 * n - sum + 100 * n * agreementTenths) * conf.d
            /\ Scores(retrieved_docs) = <<100, 300, 200>> =>
                  /\ conf = [n |-> 9, d |-> 10]
                  /\ r.confidence_score = 900
                  /\ r.confidence_category = "high"
                  /\ r.passes_guardrails
            /\ Scores(retrieved_docs) = <<950>> =>
                  /\ conf = [n |-> 3, d |-> 8]
                  /\ r.confidence_score = 375
                  /\ r.confidence_category = "low"
                  /\ ~r.passes_guardrails
                  /\ r.answer = AbstentionAnswer

C9_Witness ==
    /\ Answered
    /\ Scores(retrieved_docs) = <<100, 300, 200>>
    /\ result[1].confidence_score = 900

\* C10: a confidence c >= 0.7 is categorised high, 0.5 <= c < 0.7 medium
\* and c < 0.5 low, by calculate_confidence_score and by
\* format_confidence_score alike; exactly 0.7 is high and exactly 0.5 is
\* medium.
C10_CategoryThresholds ==
    scoring # <<>> =>
        LET c == scoring[1].confidence
            cat == scoring[1].category
        IN  /\ (10 * c.n >= 7 * c.d) => cat = "high"
            /\ (10 * c.n >= 5 * c.d /\ 10 * c.n < 7 * c.d) => cat = "medium"
            /\ (10 * c.n < 5 * c.d) => cat = "low"
            /\ (c = [n |-> 7, d |-> 10]) => cat = "high"
            /\ (c = [n |-> 1, d |-> 2]) => cat = "medium"
            /\ format_confidence_score(c).category = cat

C10_Witness ==
    /\ scoring # <<>>
    /\ scoring[1].confidence = [n |-> 7, d |-> 10]
    /\ scoring[1].category = "high"
    /\ Len(retrieved_docs) = 3

\* C11: the confidence score of every result ask_question returns lies in
\* [0, 1], whatever non-negative distances were retrieved, under the
\* default weights.
C11_ConfidenceInUnitInterval ==
    /\ (pc = "done" /\ result # <<>>) =>
          result[1].confidence_score \in 0..1000
    /\ scoring # <<>> =>
          /\ RGe(scoring[1].confidence, Rat(0, 1))
          /\ RGe(One, scoring[1].confidence)

\* C12: for a non-empty retrieval the sources of the result have the
\* length and the order of the retrieved chunks, the i-th source carrying
\* the i-th chunk's content and metadata and, as similarity_score,
\* 1 - distance_i rounded to 3 decimals, whether or not the guardrail
\* abstains.
C12_SourcesMirrorRetrieval ==
    Answered =>
        LET srcs == result[1].sources
        IN  /\ Len(srcs) = Len(retrieved_docs)
            /\ \A i \in 1..Len(retrieved_docs) :
                  /\ srcs[i].content = retrieved_docs[i].doc.page_content
                  /\ srcs[i].metadata = retrieved_docs[i].doc.metadata
                  /\ srcs[i].similarity_score
                        = 1000 - retrieved_docs[i].score

C12_Witness ==
    /\ Answered
    /\ ~result[1].passes_guardrails
    /\ Len(result[1].sources) = 3
    /\ result[1].sources[1].content = "c2"
    /\ result[1].sources[2].content = "c1"
    /\ result[1].sources[1].similarity_score = 50
    /\ result[1].sources[3].similarity_score = -1000

\* C13: ask_question never swallows a failure: when the wrapper around
\* the store query or around the model invocation raises (its attempts
\* are used up, or an error it does not retry occurred), the call raises
\* and returns no result; a call that returns has a result, and it is the
\* zero-results one or one built after the model answered.
C13_FailureNeverSwallowed ==
    /\ (w.state = "raised") =>
          /\ pc = "failed"
          /\ result = <<>>
    /\ (pc = "failed") =>
          /\ w.state = "raised"
          /\ w.exc # NoExc
          /\ \/ w.calls = 3
             \/ ~IsRetriedType(w.exc.type)
    /\ (pc = "done") =>
          /\ w.state = "returned"
          /\ result # <<>>
          /\ \/ retrieved_docs = <<>> /\ result[1] = EmptyResult
             \/ retrieved_docs # <<>> /\ llmCalls >= 1 /\ llmAnswer # ""

C13_Witness ==
    /\ pc = "failed"
    /\ w.func = "generate_answer"
    /\ llmCalls = 3
    /\ storeQueries = 2
    /\ result = <<>>

--------------------------------------------------------------------------
(* Properties of extract_shipment_data (checked under SpecExtract)         *)

\* The response is a JSON object and nothing else.
IsJsonObject(resp) ==
    /\ Strip(resp.text) = <<DOC>>
    /\ resp.doc.kind = "object"

\* What json.loads is given is no JSON document.
NotValidJson(resp) == Strip(ResultText(resp.text)) # <<DOC>>

NoField == [k |-> "none", s |-> ""]

\* C14: when the model's response is a valid JSON object in which all
\* eleven schema fields are populated with strings,
\* extract_shipment_data returns a record whose eleven fields are exactly
\* those strings, unchanged.
C14_ExtractionRoundTrip ==
    ( /\ extract_pc = "returned"
      /\ response # <<>>
      /\ IsJsonObject(response[1])
      /\ \A f \in Fields : /\ response[1].doc.members[f].k = "str"
                           /\ response[1].doc.members[f].s # "" )
    => shipment_data =
         << [f \in Fields |->
                [k |-> "str", s |-> response[1].doc.members[f].s]] >>

C14_Witness ==
    /\ extract_pc = "returned"
    /\ response # <<>>
    /\ response[1].text = <<WS, DOC, WS>>
    /\ response[1].doc.kind = "object"
    /\ \A f \in Fields : /\ response[1].doc.members[f].k = "str"
                         /\ response[1].doc.members[f].s # ""
    /\ shipment_data # <<>>
    /\ shipment_data[1]["shipment_id"] = [k |-> "str", s |-> "SH-1001"]
    /\ shipment_data[1]["rate"] = [k |-> "str", s |-> "N/A"]
    /\ shipment_data[1]["carrier_name"] = [k |-> "str", s |-> "N/A"]

\* C15: extract_shipment_data never raises: when what the model returned
\* is not valid JSON (after the removal of a code fence around it), when
\* the store query fails or when the model call fails, it returns a
\* record with all eleven fields absent.
C15_NeverRaisesAllAbsent ==
    /\ (w.func = "extract_shipment_data") =>
          w.state \in {"calling", "returned"}
    /\ extract_pc # "failed"
    /\ (extract_pc = "returned") =>
          /\ shipment_data # <<>>
          /\ (caught # <<>> /\ caught[1].at \in {"store", "llm"}) =>
                 shipment_data = << [f \in Fields |-> NoField] >>
          /\ (response # <<>> /\ NotValidJson(response[1])) =>
                 shipment_data = << [f \in Fields |-> NoField] >>

C15_Witness ==
    /\ extract_pc = "returned"
    /\ response # <<>>
    /\ response[1].text = <<PROSE, WS, DOC>>
    /\ response[1].doc.kind = "object"
    /\ \A f \in Fields : response[1].doc.members[f].k = "str"
    /\ shipment_data = << [f \in Fields |-> NoField] >>
    /\ w.state = "returned"

\* C16: when the model invocation or the store query of
\* extract_shipment_data fails with an error the retry policy retries,
\* the call is attempted again, up to 3 attempts in all, and the
\* all-absent record is returned only once those attempts are used up.
C16_AllAbsentOnlyAfterRetries ==
    ( /\ extract_pc = "returned"
      /\ caught # <<>>
      /\ caught[1].at \in {"store", "llm"}
      /\ IsRetriedType(WrapperExcept(caught[1].exc).type) )
    => /\ w.calls = 3
       /\ Len(w.sleeps) = 2

\* C17: in every record extract_shipment_data returns, whatever the
\* model answered, each field is a non-empty string or absent.
C17_NoEmptyString ==
    (extract_pc = "returned") =>
        \A f \in Fields : shipment_data[1][f] # [k |-> "str", s |-> ""]

\* C18: for a parsed JSON object whose keys are a subset of the eleven
\* schema fields, with string values, and any unrecognized keys, the
\* record has the given value for each field present, absent for each
\* field missing, and nothing of the unrecognized keys.
C18_SubsetOfFields ==
    ( /\ extract_pc = "returned"
      /\ response # <<>>
      /\ ~NotValidJson(response[1])
      /\ response[1].doc.kind = "object"
      /\ \A f \in Fields :
            response[1].doc.members[f].k \in {"missing", "str"} )
    => /\ shipment_data # <<>>
       /\ DOMAIN shipment_data[1] = Fields
       /\ \A f \in Fields :
             LET v == response[1].doc.members[f]
             IN  shipment_data[1][f] =
                     IF v.k = "str" THEN [k |-> "str", s |-> v.s]
                     ELSE NoField

C18_Witness ==
    /\ extract_pc = "returned"
    /\ response # <<>>
    /\ response[1].text = <<FENCE, TAG, WS, DOC, WS, FENCE>>
    /\ response[1].doc.kind = "object"
    /\ response[1].doc.members["notes"].k = "array"
    /\ response[1].doc.members["shipper"].k = "missing"
    /\ response[1].doc.members["rate"].k = "str"
    /\ shipment_data # <<>>
    /\ shipment_data[1]["shipper"] = NoField
    /\ shipment_data[1]["rate"] = [k |-> "str", s |-> "1,250.00"]

--------------------------------------------------------------------------
(* Properties of the handlers (checked under SpecApp) and of              *)
(* VectorStoreManager (checked under SpecStore)                            *)

\* C19: load_vector_store never raises: when the collection cannot be
\* opened it returns None, and the /ask and /extract handlers branch on
\* that value (HTTP 500, failed to load) without calling the answer
\* engine or the extractor.
C19_LoadFailureIsSentinel ==
    (request # <<>> /\ request[1].route \in {"/ask", "/extract"}) =>
        LET q == request[1]
        IN  /\ q.loaded \in {"n/a", "store", "None"}
            /\ (q.opening = "raises") => q.loaded = "None"
            /\ (q.loaded = "None") =>
                  /\ q.engine_calls = 0
                  /\ q.extractor_calls = 0
                  /\ http[1].status = 500
                  /\ http[1].detail = "Failed to load document vector store"
                  /\ http[1].body = <<>>
            /\ (q.engine_calls + q.extractor_calls > 0) =>
                  q.loaded = "store"

C19_Witness ==
    /\ request # <<>>
    /\ request[1].route = "/extract"
    /\ request[1].document_id \in document_registry
    /\ request[1].opening = "raises"
    /\ request[1].loaded = "None"
    /\ request[1].extractor_calls = 0
    /\ http[1].status = 500

\* C20: delete_collection never raises: it returns false when the
\* collection did not exist, when it could not be loaded or when the
\* deletion failed, and true only when the collection was loaded and
\* deleted.
C20_DeleteCollectionResult ==
    (storeCall # <<>> /\ storeCall[1].op = "delete_collection") =>
        LET c == storeCall[1]
        IN  /\ c.ret \in {"True", "False"}
            /\ (~c.existed) => c.ret = "False"
            /\ (c.opening = "raises") => c.ret = "False"
            /\ (c.deleting = "raises") => c.ret = "False"
            /\ (c.ret = "True") =>
                  (c.opening = "opened" /\ c.deleting = "deleted")

\* C21 as stated: the index creation for a collection name is executed
\* at most once over the system's lifetime, the executions made by the
\* retry wrapper included.
C21_CreatedAtMostOnce ==
    \A n \in CollectionNames : creations[n] <= 1

\* C21, amended: every upload enters create_vector_store once, under a
\* collection name made from a fresh id that no earlier upload had; the
\* retry wrapper executes the index creation for that name at most 3
\* times, all of them within that upload.
C21_FreshNameAtMostThreeExecutions ==
    /\ [](\A d \in DocIds :
            /\ creations[CollectionName(d)] <= 3
            /\ (creations[CollectionName(d)] > 0) => d \in issued)
    /\ [][ /\ (uploading' # uploading /\ uploading' # <<>>) =>
               /\ uploading'[1] \notin issued
               /\ creations[CollectionName(uploading'[1])] = 0
           /\ \A d \in DocIds :
                (creations'[CollectionName(d)] # creations[CollectionName(d)])
                  => uploading = <<d>> ]_vars

C21_Witness ==
    /\ creations["doc_d1"] = 3
    /\ "d1" \in document_registry
    /\ creations["doc_d2"] = 1
    /\ "d2" \in document_registry

\* C22: a guardrail abstention is a successful call: for a registered
\* document whose store loads, an /ask request whose guardrail triggers
\* is answered with success, the abstention text and category low, never
\* with an HTTP error; a failure of the model or of the store is answered
\* with an HTTP error, never with success.
C22_AbstentionIsSuccess ==
    ( /\ request # <<>>
      /\ http # <<>>
      /\ request[1].route = "/ask"
      /\ request[1].loaded = "store" )
    => LET out == request[1].outcome
       IN  /\ (out # <<>> /\ out[1].sources # <<>>
                  /\ ~out[1].passes_guardrails) =>
                 /\ http[1].status = 200
                 /\ http[1].body # <<>>
                 /\ http[1].body[1].success
                 /\ http[1].body[1].answer = AbstentionAnswer
                 /\ http[1].body[1].confidence_category = "low"
           /\ (out = <<>>) =>
                 /\ http[1].status = 500
                 /\ http[1].body = <<>>
           /\ (http[1].status = 200) => out # <<>>

C22_Witness ==
    /\ request # <<>>
    /\ http # <<>>
    /\ request[1].route = "/ask"
    /\ request[1].document_id \in document_registry
    /\ http[1].status = 200
    /\ http[1].body[1].answer = AbstentionAnswer
    /\ http[1].body[1].confidence_score = 375
    /\ http[1].body[1].confidence_category = "low"

\* C23: /ask and /extract never change shared state: whether the request
\* succeeds, abstains or fails, the document registry and the
\* collections of the index (their set, and their contents, which only
\* an execution of the index creation changes) are afterwards what they
\* were before.
\* A step that ends with an /ask or /extract request recorded is a step
\* of AskHandler or ExtractHandler: every other handler records its own
\* route, and FromDocuments and Backoff run under an /upload request.
C23_ReadsDoNotMutate ==
    [][ (request' # <<>> /\ request'[1].route \in {"/ask", "/extract"}) =>
           UNCHANGED <<document_registry, collections, creations, indexed,
                       files, issued>> ]_vars

C23_Witness ==
    /\ request # <<>>
    /\ http # <<>>
    /\ request[1].route = "/ask"
    /\ request[1].document_id \in document_registry
    /\ request[1].engine_calls = 1
    /\ request[1].outcome = <<>>
    /\ http[1].status = 500
    /\ Cardinality(collections) = 2
    /\ Cardinality(document_registry) = 2

\* C24: within one ask_question call retrieval and generation happen in
\* sequence: every model invocation follows a store query that returned
\* a non-empty result, once generation has begun the store is not
\* queried again and a retried generation uses the same chunks, and per
\* call the store is queried at most 3 times and the model invoked at
\* most 3 times.
C24_RetrievalThenGeneration ==
    /\ [](/\ storeQueries <= 3
          /\ llmCalls <= 3
          /\ (llmCalls >= 1) => (retrieved_docs # <<>> /\ storeQueries >= 1))
    /\ [][ /\ (llmCalls' > llmCalls) =>
                /\ retrieved_docs # <<>>
                /\ retrieved_docs' = retrieved_docs
                /\ storeQueries' = storeQueries
           /\ (storeQueries' > storeQueries) => llmCalls = 0 ]_vars

C24_Witness ==
    /\ pc = "done"
    /\ storeQueries = 3
    /\ llmCalls = 3
    /\ result # <<>>
    /\ Len(retrieved_docs) = TOP_K_RETRIEVAL

\* C25: for every result of generate_answer with passes_guardrails true,
\* the returned confidence_category is the threshold mapping (>= 0.7
\* high, >= 0.5 medium, else low) applied to the returned
\* confidence_score, the confidence rounded to 3 decimals.
C25_CategoryMatchesReturnedScore ==
    (Answered /\ result[1].passes_guardrails) =>
        result[1].confidence_category
            = Category(Rat(result[1].confidence_score, 1000))

\* C26: with the default weights (0.5 / 0.5) and threshold (0.2), for
\* every non-empty list of distances a confidence below the threshold
\* implies an avgRetrieval below the threshold: the confidence branch of
\* apply_guardrails is never the only reason for abstention, and the
\* guardrail outcome is decided by avgRetrieval alone.
C26_ConfidenceBranchNeverAlone ==
    Answered =>
        LET avgRetrieval == AvgSimilarity(Scores(retrieved_docs))
            conf == scoring[1].confidence
        IN  /\ RLt(conf, SIMILARITY_THRESHOLD)
                  => RLt(avgRetrieval, SIMILARITY_THRESHOLD)
            /\ result[1].passes_guardrails
                  = ~RLt(avgRetrieval, SIMILARITY_THRESHOLD)

C26_Witness ==
    /\ Answered
    /\ Len(retrieved_docs) = 3
    /\ RLt(scoring[1].confidence, SIMILARITY_THRESHOLD)
    /\ RLt(AvgSimilarity(Scores(retrieved_docs)), SIMILARITY_THRESHOLD)
    /\ ~result[1].passes_guardrails
    /\ result[1].answer = AbstentionAnswer

\* C27: a document id is in the registry only if the creation of its
\* collection completed successfully: an upload that is rejected or whose
\* parsing or index creation fails leaves the registry unchanged, an id
\* enters the registry only with the 200 of its own upload, and /ask,
\* /extract and DELETE on an unregistered id answer 404 without touching
\* the index or the model.
C27_RegisteredOnlyAfterCreation ==
    /\ [](document_registry \subseteq indexed)
    /\ [][ /\ \A d \in document_registry' \ document_registry :
                /\ uploading = <<d>>
                /\ request'[1].route = "/upload"
                /\ http' = Http(200, "", <<>>)
                /\ d \in indexed'
           /\ (/\ http' # <<>>
               /\ request' # <<>>
               /\ request'[1].route = "/upload"
               /\ http'[1].status # 200)
                 => document_registry' = document_registry
           /\ (/\ request' # <<>>
               /\ request'[1].route \in {"/ask", "/extract", "/document"}
               /\ request'[1].document_id \notin document_registry)
                 => /\ http'[1].status = 404
                    /\ request'[1].opening = "n/a"
                    /\ request'[1].engine_calls = 0
                    /\ request'[1].extractor_calls = 0
                    /\ UNCHANGED <<document_registry, collections, files,
                                   creations, indexed, storeCall, askVars,
                                   extractVars>> ]_vars

C27_Witness ==
    /\ request # <<>>
    /\ http # <<>>
    /\ request[1].route = "/upload"
    /\ request[1].document_id = "d2"
    /\ http[1].status = 500
    /\ creations["doc_d2"] = 3
    /\ "doc_d2" \in collections
    /\ "d2" \in files
    /\ document_registry = {"d1"}

\* C28: whenever DELETE /document/{id} reports success the id is no
\* longer in the registry and its collection no longer exists in the
\* index, so that between requests every existing collection belongs to
\* a registered document.
C28_DeleteLeavesNoCollection ==
    /\ (/\ request # <<>>
        /\ http # <<>>
        /\ request[1].route = "/document"
        /\ http[1].status = 200)
          => /\ request[1].document_id \notin document_registry
             /\ CollectionName(request[1].document_id) \notin collections
    /\ (uploading = <<>>)
          => \A n \in collections :
                \E d \in document_registry : n = CollectionName(d)

\* C29: when the model's response parses as JSON but is no object, or is
\* an object in which some schema field holds a value the schema rejects
\* (neither a string nor null), extract_shipment_data does not raise and
\* returns the all-absent record, discarding every other field of the
\* response, the valid ones included.
C29_RejectedValueDiscardsAll ==
    ( /\ extract_pc = "returned"
      /\ response # <<>>
      /\ json_loads_ok(ResultText(response[1].text))
      /\ \/ response[1].doc.kind # "object"
         \/ \E f \in Fields : response[1].doc.members[f].k = "array" )
    => /\ shipment_data = << [f \in Fields |-> NoField] >>
       /\ w.state = "returned"
       /\ caught # <<>>
       /\ caught[1].at = "build"
       /\ caught[1].exc.type \in {"TypeError", "ValidationError"}

C29_Witness ==
    /\ extract_pc = "returned"
    /\ response # <<>>
    /\ response[1].text = <<FENCE, TAG, WS, DOC, WS, FENCE>>
    /\ response[1].doc.kind = "object"
    /\ response[1].doc.members["rate"].k = "array"
    /\ \A f \in Fields \ {"rate"} :
          /\ response[1].doc.members[f].k = "str"
          /\ response[1].doc.members[f].s # ""
    /\ caught # <<>>
    /\ caught[1].exc.type = "ValidationError"
    /\ shipment_data = << [f \in Fields |-> NoField] >>

==========================================================================
